---- MODULE Spec2Model ----
(***************************************************************************)
(* A model of the geometry library src/src/lib.rs: the value types         *)
(* Vector2<T>, Vector3<T>, Point2<T>, Point3<T>, their operator impls and  *)
(* the dot product.  The scalar type T is instantiated as in the tests of  *)
(* the library with a two's complement signed integer (i32 there, W bits   *)
(* here).  Integer overflow in Rust depends on the build: with overflow    *)
(* checks (debug) the operation panics, without them (release) it wraps.   *)
(* Division by zero and MIN / -1 panic in every build.                     *)
(*                                                                         *)
(* The state machine is a client of the library, shaped like its tests:    *)
(* it binds values x, a, b and a scalar k, then either compares two of     *)
(* them, or evaluates a chain of non-assigning operators starting from x   *)
(* (acc), or applies a chain of in-place operators to a mutable copy of x  *)
(* (recv).                                                                 *)
(***************************************************************************)
EXTENDS Integers, Sequences, FiniteSets

VARIABLES
    overflow_checks, \* build profile: TRUE = overflow panics, FALSE = wraps
    x,               \* the value the client starts from (any of the 4 types)
    a,               \* a vector operand of the dimension of x
    b,               \* a second operand, of the type of x
    k,               \* a scalar operand
    acc,             \* value of the expression evaluated so far
    hist,            \* the non-assigning operators applied to x, in order
    recv,            \* `let mut recv = x`, the receiver of in-place operators
    rhist,           \* the in-place operators applied to recv, in order
    cmp,             \* the last comparison evaluated
    panicked         \* the thread has panicked (scalar overflow, division)

vars == <<overflow_checks, x, a, b, k, acc, hist, recv, rhist, cmp, panicked>>

(***************************************************************************)
(* Bounds of the model.                                                    *)
(***************************************************************************)
\* width in bits of the scalar type (i32 in the tests, scaled down)
W == 4
\* longest chain of operators a client evaluates
MaxOps == 2

(***************************************************************************)
(* The scalar type T: a W-bit two's complement integer.                    *)
(***************************************************************************)
Modulus == 2 ^ W
MinT == -(2 ^ (W - 1))
MaxT == 2 ^ (W - 1) - 1
\* the outcome "this scalar operation panicked"; no value of T equals it
PANIC == MaxT + 1

InT(n) == n >= MinT /\ n <= MaxT
Wrap(n) == ((n - MinT) % Modulus) + MinT
Arith(n) == IF InT(n) THEN n ELSE IF overflow_checks THEN PANIC ELSE Wrap(n)
Abs(n) == IF n < 0 THEN -n ELSE n
\* Rust's integer division truncates toward zero
TruncDiv(m, n) == IF (m < 0) = (n < 0) THEN Abs(m) \div Abs(n)
                  ELSE -(Abs(m) \div Abs(n))

T_add(m, n) == IF m = PANIC \/ n = PANIC THEN PANIC ELSE Arith(m + n)
T_sub(m, n) == IF m = PANIC \/ n = PANIC THEN PANIC ELSE Arith(m - n)
T_mul(m, n) == IF m = PANIC \/ n = PANIC THEN PANIC ELSE Arith(m * n)
T_neg(m) == IF m = PANIC THEN PANIC ELSE Arith(-m)
T_div(m, n) == IF m = PANIC \/ n = PANIC THEN PANIC
               ELSE IF n = 0 THEN PANIC
               ELSE IF m = MinT /\ n = -1 THEN PANIC
               ELSE TruncDiv(m, n)
T_eq(m, n) == m = n
T_ne(m, n) == m # n

(***************************************************************************)
(* The four tuple structs.  Field .0 is c[1], .1 is c[2], .2 is c[3].      *)
(***************************************************************************)
Vector2(c0, c1) == [ty |-> "Vector2", c |-> <<c0, c1>>]
Point2(c0, c1) == [ty |-> "Point2", c |-> <<c0, c1>>]
Vector3(c0, c1, c2) == [ty |-> "Vector3", c |-> <<c0, c1, c2>>]
Point3(c0, c1, c2) == [ty |-> "Point3", c |-> <<c0, c1, c2>>]
\* a value of the scalar type, as the result of dot
Scalar(s) == [ty |-> "T", c |-> <<s>>]

(***************************************************************************)
(* Vector2<T>                                                              *)
(***************************************************************************)
Vector2_eq(self, v) == T_eq(self.c[1], v.c[1]) /\ T_eq(self.c[2], v.c[2])

\* faulty variant of ne: inequality only when all components differ
Vector2_ne_AllDiffer(self, v) ==
    T_ne(self.c[1], v.c[1]) /\ T_ne(self.c[2], v.c[2])
Vector2_ne(self, v) == T_ne(self.c[1], v.c[1]) \/ T_ne(self.c[2], v.c[2])

Vector2_neg(self) == Vector2(T_neg(self.c[1]), T_neg(self.c[2]))

Vector2_add(self, v) ==
    Vector2(T_add(self.c[1], v.c[1]), T_add(self.c[2], v.c[2]))

Vector2_add_assign(self, v) ==
    Vector2(T_add(self.c[1], v.c[1]), T_add(self.c[2], v.c[2]))

Vector2_sub(self, v) ==
    Vector2(T_sub(self.c[1], v.c[1]), T_sub(self.c[2], v.c[2]))

Vector2_sub_assign(self, v) ==
    Vector2(T_sub(self.c[1], v.c[1]), T_sub(self.c[2], v.c[2]))

Vector2_mul(self, s) == Vector2(T_mul(self.c[1], s), T_mul(self.c[2], s))

Vector2_mul_assign(self, s) ==
    Vector2(T_mul(self.c[1], s), T_mul(self.c[2], s))

Vector2_div(self, s) == Vector2(T_div(self.c[1], s), T_div(self.c[2], s))

Vector2_div_assign(self, s) ==
    Vector2(T_div(self.c[1], s), T_div(self.c[2], s))

Vector2_dot(self, v) ==
    T_add(T_mul(self.c[1], v.c[1]), T_mul(self.c[2], v.c[2]))

(***************************************************************************)
(* Point2<T>                                                               *)
(***************************************************************************)
Point2_eq(self, p) == T_eq(self.c[1], p.c[1]) /\ T_eq(self.c[2], p.c[2])

Point2_ne(self, p) == T_ne(self.c[1], p.c[1]) \/ T_ne(self.c[2], p.c[2])

\* impl Add<Vector2<T>> for Point2<T>
Point2_add(self, v) ==
    Point2(T_add(self.c[1], v.c[1]), T_add(self.c[2], v.c[2]))

Point2_add_assign(self, v) ==
    Point2(T_add(self.c[1], v.c[1]), T_add(self.c[2], v.c[2]))

\* impl Sub<Vector2<T>> for Point2<T>
Point2_sub_Vector2(self, v) ==
    Point2(T_sub(self.c[1], v.c[1]), T_sub(self.c[2], v.c[2]))

Point2_sub_assign(self, v) ==
    Point2(T_sub(self.c[1], v.c[1]), T_sub(self.c[2], v.c[2]))

\* impl Sub for Point2<T>: type Output = Point2<T>
Point2_sub(self, p) ==
    Point2(T_sub(self.c[1], p.c[1]), T_sub(self.c[2], p.c[2]))

(***************************************************************************)
(* Vector3<T>                                                              *)
(***************************************************************************)
\* faulty variant of eq: the third component is not compared
Vector3_eq_IgnoreZ(self, v) ==
    T_eq(self.c[1], v.c[1]) /\ T_eq(self.c[2], v.c[2])
Vector3_eq(self, v) ==
    T_eq(self.c[1], v.c[1]) /\ T_eq(self.c[2], v.c[2]) /\ T_eq(self.c[3], v.c[3])

Vector3_ne(self, v) ==
    T_ne(self.c[1], v.c[1]) \/ T_ne(self.c[2], v.c[2]) \/ T_ne(self.c[3], v.c[3])

\* faulty variant of neg: the third component is not negated
Vector3_neg_KeepZ(self) ==
    Vector3(T_neg(self.c[1]), T_neg(self.c[2]), self.c[3])
Vector3_neg(self) ==
    Vector3(T_neg(self.c[1]), T_neg(self.c[2]), T_neg(self.c[3]))

Vector3_add(self, v) ==
    Vector3(T_add(self.c[1], v.c[1]), T_add(self.c[2], v.c[2]),
            T_add(self.c[3], v.c[3]))

Vector3_add_assign(self, v) ==
    Vector3(T_add(self.c[1], v.c[1]), T_add(self.c[2], v.c[2]),
            T_add(self.c[3], v.c[3]))

\* faulty variant of sub: the operand's components are taken crosswise
Vector3_sub_SwapYZ(self, v) ==
    Vector3(T_sub(self.c[1], v.c[1]), T_sub(self.c[2], v.c[3]),
            T_sub(self.c[3], v.c[2]))
Vector3_sub(self, v) ==
    Vector3(T_sub(self.c[1], v.c[1]), T_sub(self.c[2], v.c[2]),
            T_sub(self.c[3], v.c[3]))

Vector3_sub_assign(self, v) ==
    Vector3(T_sub(self.c[1], v.c[1]), T_sub(self.c[2], v.c[2]),
            T_sub(self.c[3], v.c[3]))

Vector3_mul(self, s) ==
    Vector3(T_mul(self.c[1], s), T_mul(self.c[2], s), T_mul(self.c[3], s))

Vector3_mul_assign(self, s) ==
    Vector3(T_mul(self.c[1], s), T_mul(self.c[2], s), T_mul(self.c[3], s))

\* faulty variant of div: the third component is multiplied
Vector3_div_MulZ(self, s) ==
    Vector3(T_div(self.c[1], s), T_div(self.c[2], s), T_mul(self.c[3], s))
Vector3_div(self, s) ==
    Vector3(T_div(self.c[1], s), T_div(self.c[2], s), T_div(self.c[3], s))

Vector3_div_assign(self, s) ==
    Vector3(T_div(self.c[1], s), T_div(self.c[2], s), T_div(self.c[3], s))

\* faulty variant of dot: the third product is left out
Vector3_dot_DropZ(self, v) ==
    T_add(T_mul(self.c[1], v.c[1]), T_mul(self.c[2], v.c[2]))
Vector3_dot(self, v) ==
    T_add(T_add(T_mul(self.c[1], v.c[1]), T_mul(self.c[2], v.c[2])),
          T_mul(self.c[3], v.c[3]))

(***************************************************************************)
(* Point3<T>                                                               *)
(***************************************************************************)
Point3_eq(self, p) ==
    T_eq(self.c[1], p.c[1]) /\ T_eq(self.c[2], p.c[2]) /\ T_eq(self.c[3], p.c[3])

Point3_ne(self, p) ==
    T_ne(self.c[1], p.c[1]) \/ T_ne(self.c[2], p.c[2]) \/ T_ne(self.c[3], p.c[3])

\* impl Add<Vector3<T>> for Point3<T>
Point3_add(self, v) ==
    Point3(T_add(self.c[1], v.c[1]), T_add(self.c[2], v.c[2]),
           T_add(self.c[3], v.c[3]))

Point3_add_assign(self, v) ==
    Point3(T_add(self.c[1], v.c[1]), T_add(self.c[2], v.c[2]),
           T_add(self.c[3], v.c[3]))

\* impl Sub<Vector3<T>> for Point3<T>
\* faulty variant of sub: the third component is added
Point3_sub_Vector3_AddZ(self, v) ==
    Point3(T_sub(self.c[1], v.c[1]), T_sub(self.c[2], v.c[2]),
           T_add(self.c[3], v.c[3]))
Point3_sub_Vector3(self, v) ==
    Point3(T_sub(self.c[1], v.c[1]), T_sub(self.c[2], v.c[2]),
           T_sub(self.c[3], v.c[3]))

\* faulty variant of sub_assign: the third component is not updated
Point3_sub_assign_NoZ(self, v) ==
    Point3(T_sub(self.c[1], v.c[1]), T_sub(self.c[2], v.c[2]), self.c[3])
Point3_sub_assign(self, v) ==
    Point3(T_sub(self.c[1], v.c[1]), T_sub(self.c[2], v.c[2]),
           T_sub(self.c[3], v.c[3]))

\* impl Sub for Point3<T>: type Output = Point3<T>
Point3_sub(self, p) ==
    Point3(T_sub(self.c[1], p.c[1]), T_sub(self.c[2], p.c[2]),
           T_sub(self.c[3], p.c[3]))

(***************************************************************************)
(* Operator resolution: which impl the compiler selects for an operator,   *)
(* from the types of its operands.  An operand pair with no impl does not  *)
(* compile; the guards of the actions below admit only pairs that do.      *)
(***************************************************************************)
VectorTypes == {"Vector2", "Vector3"}
PointTypes == {"Point2", "Point3"}
Types == VectorTypes \cup PointTypes

\* the vector type of the dimension of type t
VectorOf(t) == IF t \in {"Vector2", "Point2"} THEN "Vector2" ELSE "Vector3"

\* impl PartialEq exists only between two values of one type
HasEq(l, r) == l.ty \in Types /\ r.ty = l.ty
\* impl Add: Vector + Vector, Point + Vector
HasAdd(l, r) == l.ty \in Types /\ r.ty = VectorOf(l.ty)
\* impl Sub: Vector - Vector, Point - Vector, Point - Point
HasSub(l, r) ==
    l.ty \in Types /\ (r.ty = VectorOf(l.ty) \/ (l.ty \in PointTypes /\ r.ty = l.ty))
\* impl Neg, Mul<T>, Div<T>, dot: vectors only
IsVector(l) == l.ty \in VectorTypes

Eq(l, r) ==
    CASE l.ty = "Vector2" -> Vector2_eq(l, r)
      [] l.ty = "Point2" -> Point2_eq(l, r)
      [] l.ty = "Vector3" -> Vector3_eq(l, r)
      [] l.ty = "Point3" -> Point3_eq(l, r)

Ne(l, r) ==
    CASE l.ty = "Vector2" -> Vector2_ne(l, r)
      [] l.ty = "Point2" -> Point2_ne(l, r)
      [] l.ty = "Vector3" -> Vector3_ne(l, r)
      [] l.ty = "Point3" -> Point3_ne(l, r)

Neg(l) ==
    CASE l.ty = "Vector2" -> Vector2_neg(l)
      [] l.ty = "Vector3" -> Vector3_neg(l)

Add(l, r) ==
    CASE l.ty = "Vector2" -> Vector2_add(l, r)
      [] l.ty = "Point2" -> Point2_add(l, r)
      [] l.ty = "Vector3" -> Vector3_add(l, r)
      [] l.ty = "Point3" -> Point3_add(l, r)

Sub(l, r) ==
    CASE l.ty = "Vector2" -> Vector2_sub(l, r)
      [] l.ty = "Point2" /\ r.ty = "Vector2" -> Point2_sub_Vector2(l, r)
      [] l.ty = "Point2" /\ r.ty = "Point2" -> Point2_sub(l, r)
      [] l.ty = "Vector3" -> Vector3_sub(l, r)
      [] l.ty = "Point3" /\ r.ty = "Vector3" -> Point3_sub_Vector3(l, r)
      [] l.ty = "Point3" /\ r.ty = "Point3" -> Point3_sub(l, r)

Mul(l, s) ==
    CASE l.ty = "Vector2" -> Vector2_mul(l, s)
      [] l.ty = "Vector3" -> Vector3_mul(l, s)

Div(l, s) ==
    CASE l.ty = "Vector2" -> Vector2_div(l, s)
      [] l.ty = "Vector3" -> Vector3_div(l, s)

Dot(l, r) ==
    CASE l.ty = "Vector2" -> Vector2_dot(l, r)
      [] l.ty = "Vector3" -> Vector3_dot(l, r)

AddAssign(l, r) ==
    CASE l.ty = "Vector2" -> Vector2_add_assign(l, r)
      [] l.ty = "Point2" -> Point2_add_assign(l, r)
      [] l.ty = "Vector3" -> Vector3_add_assign(l, r)
      [] l.ty = "Point3" -> Point3_add_assign(l, r)

SubAssign(l, r) ==
    CASE l.ty = "Vector2" -> Vector2_sub_assign(l, r)
      [] l.ty = "Point2" -> Point2_sub_assign(l, r)
      [] l.ty = "Vector3" -> Vector3_sub_assign(l, r)
      [] l.ty = "Point3" -> Point3_sub_assign(l, r)

MulAssign(l, s) ==
    CASE l.ty = "Vector2" -> Vector2_mul_assign(l, s)
      [] l.ty = "Vector3" -> Vector3_mul_assign(l, s)

DivAssign(l, s) ==
    CASE l.ty = "Vector2" -> Vector2_div_assign(l, s)
      [] l.ty = "Vector3" -> Vector3_div_assign(l, s)

(***************************************************************************)
(* The client.                                                             *)
(***************************************************************************)
\* construction from raw components, in the order x, y[, z]
Construct(t, s) ==
    CASE t = "Vector2" -> Vector2(s[1], s[2])
      [] t = "Point2" -> Point2(s[1], s[2])
      [] t = "Vector3" -> Vector3(s[1], s[2], s[3])
      [] t = "Point3" -> Point3(s[1], s[2], s[3])

\* the components the client constructs its values from
XSamples == {<<1, 1, 1>>, <<1, 0, -1>>, <<MaxT, MinT, -3>>, <<3, -2, MaxT>>,
             <<0, 0, 0>>, <<-1, 2, -4>>}
ASamples == {<<2, 3, 4>>, <<1, -1, MaxT>>, <<MinT, 2, -2>>, <<-1, -1, -1>>}
BSamples == {<<1, 0, -1>>, <<0, 1, -1>>, <<1, 1, 2>>, <<MaxT, MinT, -3>>}
KSamples == {-1, 0, 2, 3}

RegNames == {"x", "a", "b"}
Reg(r) == CASE r = "x" -> x [] r = "a" -> a [] r = "b" -> b

\* a scalar operation inside the evaluation of val panicked
Panicked(val) == \E i \in 1..Len(val.c) : val.c[i] = PANIC

NoCmp == [op |-> "none", l |-> "x", r |-> "x", res |-> FALSE]

\* the client has not started a comparison, an expression or an in-place chain
Idle == cmp = NoCmp /\ hist = <<>> /\ rhist = <<>>
\* the client may evaluate one more non-assigning operator
InExpr == ~panicked /\ cmp = NoCmp /\ rhist = <<>> /\ Len(hist) < MaxOps
\* the client may apply one more in-place operator
InAssign == ~panicked /\ cmp = NoCmp /\ hist = <<>> /\ Len(rhist) < MaxOps

Init ==
    /\ overflow_checks \in BOOLEAN
    /\ \E t \in Types :
        /\ x \in {Construct(t, s) : s \in XSamples}
        /\ a \in {Construct(VectorOf(t), s) : s \in ASamples}
        /\ b \in {Construct(t, s) : s \in BSamples}
    /\ k \in KSamples
    /\ acc = x
    /\ hist = <<>>
    /\ recv = x
    /\ rhist = <<>>
    /\ cmp = NoCmp
    /\ panicked = FALSE

\* acc = acc <op> <arg>, or the panic of the scalar operation inside it
Evaluate(op, arg, res) ==
    /\ IF Panicked(res)
       THEN panicked' = TRUE /\ UNCHANGED <<acc, hist>>
       ELSE /\ acc' = res
            /\ hist' = Append(hist, [op |-> op, arg |-> arg])
            /\ UNCHANGED panicked
    /\ UNCHANGED <<overflow_checks, x, a, b, k, recv, rhist, cmp>>

\* recv <op>= <arg>: *self = Self(..) is assigned only if building it did not panic
Assign(op, arg, res) ==
    /\ IF Panicked(res)
       THEN panicked' = TRUE /\ UNCHANGED <<recv, rhist>>
       ELSE /\ recv' = res
            /\ rhist' = Append(rhist, [op |-> op, arg |-> arg])
            /\ UNCHANGED panicked
    /\ UNCHANGED <<overflow_checks, x, a, b, k, acc, hist, cmp>>

\* &l == &r
OpEq(l, r) ==
    /\ ~panicked /\ Idle
    /\ HasEq(Reg(l), Reg(r))
    /\ cmp' = [op |-> "eq", l |-> l, r |-> r, res |-> Eq(Reg(l), Reg(r))]
    /\ UNCHANGED <<overflow_checks, x, a, b, k, acc, hist, recv, rhist, panicked>>

\* &l != &r
OpNe(l, r) ==
    /\ ~panicked /\ Idle
    /\ HasEq(Reg(l), Reg(r))
    /\ cmp' = [op |-> "ne", l |-> l, r |-> r, res |-> Ne(Reg(l), Reg(r))]
    /\ UNCHANGED <<overflow_checks, x, a, b, k, acc, hist, recv, rhist, panicked>>

\* -acc
OpNeg ==
    /\ InExpr /\ IsVector(acc)
    /\ Evaluate("neg", "none", Neg(acc))

\* acc + r
OpAdd(r) ==
    /\ InExpr /\ HasAdd(acc, Reg(r))
    /\ Evaluate("add", r, Add(acc, Reg(r)))

\* acc - r
OpSub(r) ==
    /\ InExpr /\ HasSub(acc, Reg(r))
    /\ Evaluate("sub", r, Sub(acc, Reg(r)))

\* acc * k
OpMul ==
    /\ InExpr /\ IsVector(acc)
    /\ Evaluate("mul", "k", Mul(acc, k))

\* acc / k
OpDiv ==
    /\ InExpr /\ IsVector(acc)
    /\ Evaluate("div", "k", Div(acc, k))

\* acc.dot(r)
OpDot(r) ==
    /\ InExpr /\ IsVector(acc) /\ Reg(r).ty = acc.ty
    /\ Evaluate("dot", r, Scalar(Dot(acc, Reg(r))))

\* recv += r
OpAddAssign(r) ==
    /\ InAssign /\ HasAdd(recv, Reg(r))
    /\ Assign("add", r, AddAssign(recv, Reg(r)))

\* recv -= r  (impl SubAssign takes a vector operand only)
OpSubAssign(r) ==
    /\ InAssign /\ HasAdd(recv, Reg(r))
    /\ Assign("sub", r, SubAssign(recv, Reg(r)))

\* recv *= k
OpMulAssign ==
    /\ InAssign /\ IsVector(recv)
    /\ Assign("mul", "k", MulAssign(recv, k))

\* recv /= k
OpDivAssign ==
    /\ InAssign /\ IsVector(recv)
    /\ Assign("div", "k", DivAssign(recv, k))

Next ==
    \/ \E l, r \in RegNames : OpEq(l, r)
    \/ \E l, r \in RegNames : OpNe(l, r)
    \/ OpNeg
    \/ \E r \in RegNames : OpAdd(r)
    \/ \E r \in RegNames : OpSub(r)
    \/ OpMul
    \/ OpDiv
    \/ \E r \in RegNames : OpDot(r)
    \/ \E r \in RegNames : OpAddAssign(r)
    \/ \E r \in RegNames : OpSubAssign(r)
    \/ OpMulAssign
    \/ OpDivAssign

Spec == Init /\ [][Next]_vars

(***************************************************************************)
(* Properties.  x is the value a chain starts from; hist (rhist) lists the *)
(* operators applied to it.  A chain that panicked has no value: every     *)
(* equation below is about chains whose evaluation completed.              *)
(***************************************************************************)
Step(op, arg) == [op |-> op, arg |-> arg]
Dims(val) == 1..Len(val.c)
\* the chain evaluated so far is x <op1> <arg1>
Chain1(op1, arg1) == hist = <<Step(op1, arg1)>>
\* the chain evaluated so far is (x <op1> <arg1>) <op2> <arg2>
Chain2(op1, arg1, op2, arg2) == hist = <<Step(op1, arg1), Step(op2, arg2)>>
\* the sum of the componentwise products, with the arithmetic of T
SumOfProducts(l, r) ==
    IF Len(l.c) = 2
    THEN T_add(T_mul(l.c[1], r.c[1]), T_mul(l.c[2], r.c[2]))
    ELSE T_add(T_add(T_mul(l.c[1], r.c[1]), T_mul(l.c[2], r.c[2])),
               T_mul(l.c[3], r.c[3]))
\* the non-assigning operator that corresponds to an in-place step
NonAssign(e, val) ==
    CASE e.op = "add" -> Add(val, Reg(e.arg))
      [] e.op = "sub" -> Sub(val, Reg(e.arg))
      [] e.op = "mul" -> Mul(val, k)
      [] e.op = "div" -> Div(val, k)
\* the non-assigning operators of h applied in order to val
RECURSIVE ApplyOps(_, _)
ApplyOps(h, val) ==
    IF h = <<>> THEN val ELSE ApplyOps(Tail(h), NonAssign(Head(h), val))

\* C1: for Point2 and Point3, p - q is a value of the Vector type of the
\* same dimension whose components are the componentwise differences.
C1_PointMinusPointIsVector ==
    (x.ty \in PointTypes /\ Chain1("sub", "b")) =>
        /\ acc.ty = VectorOf(x.ty)
        /\ \A i \in Dims(x) : acc.c[i] = T_sub(x.c[i], b.c[i])

\* C2: for each of the four types, (v != w) equals !(v == w): inequality is
\* true as soon as at least one component pair differs.
C2_NeIsNegationOfEq ==
    cmp.op = "ne" =>
        LET l == Reg(cmp.l)
            r == Reg(cmp.r)
        IN  /\ cmp.res = ~Eq(l, r)
            /\ cmp.res = (\E i \in Dims(l) : l.c[i] # r.c[i])

\* C2 witness: != was evaluated on two values that differ in exactly one
\* component and answered true, in dimension 2 or 3.
C2_Witness ==
    /\ cmp.op = "ne" /\ cmp.res
    /\ Cardinality({i \in Dims(Reg(cmp.l)) : Reg(cmp.l).c[i] # Reg(cmp.r).c[i]}) = 1

\* C3: for each of the four types, v == v; v == w iff w == v; and v == w iff
\* every component pair (x with x, y with y[, z with z]) is equal.
C3_EqReflexiveSymmetricComponentwise ==
    cmp.op = "eq" =>
        LET l == Reg(cmp.l)
            r == Reg(cmp.r)
        IN  /\ cmp.l = cmp.r => cmp.res
            /\ cmp.res = Eq(r, l)
            /\ cmp.res = (\A i \in Dims(l) : l.c[i] = r.c[i])

\* C3 witness: == was evaluated on two distinct bindings of a 3-component
\* type that hold equal components, and answered true.
C3_Witness ==
    /\ cmp.op = "eq" /\ cmp.res /\ cmp.l # cmp.r
    /\ Len(Reg(cmp.l).c) = 3

\* C4: for points p1 = b, p2 = x and the vector v = a, (p2 - p1) == v is a
\* comparison of two vectors, and if it holds then p1 + v == p2.
C4_DisplacementConsistency ==
    (x.ty \in PointTypes /\ Chain1("sub", "b")) =>
        /\ HasEq(acc, a)
        /\ Eq(acc, a) => Eq(Add(b, a), x)

\* C5: for every point p = x and vector v = a, p + v and p - v are points
\* computed componentwise, and (p + v) - v == p and (p - v) + v == p.
C5_TranslationRoundTrip ==
    x.ty \in PointTypes =>
        /\ Chain1("add", "a") =>
              /\ acc.ty = x.ty
              /\ \A i \in Dims(x) : acc.c[i] = T_add(x.c[i], a.c[i])
        /\ Chain1("sub", "a") =>
              /\ acc.ty = x.ty
              /\ \A i \in Dims(x) : acc.c[i] = T_sub(x.c[i], a.c[i])
        /\ Chain2("add", "a", "sub", "a") => Eq(acc, x)
        /\ Chain2("sub", "a", "add", "a") => Eq(acc, x)

\* C5 witness: a Point3 was translated by a vector and back in a build
\* where the first translation wrapped around, and compares equal to p.
C5_Witness ==
    /\ x.ty = "Point3" /\ ~overflow_checks
    /\ Chain2("add", "a", "sub", "a")
    /\ \E i \in Dims(x) : ~InT(x.c[i] + a.c[i])
    /\ Eq(acc, x)

\* C6 as stated: for every vector v = x and every non-zero scalar k,
\* (v * k) / k == v.
C6_MulDivRoundTrip ==
    (IsVector(x) /\ k # 0 /\ Chain2("mul", "k", "div", "k")) => Eq(acc, x)

\* C6 amended: * and / scale every component by k with the multiplication and
\* division of T, and for every vector v = x and non-zero scalar k such that
\* every product v_i * k is computed exactly by T (no overflow), (v * k) / k == v.
C6_MulDivRoundTripExact ==
    IsVector(x) =>
        /\ Chain1("mul", "k") =>
              /\ acc.ty = x.ty
              /\ \A i \in Dims(x) : acc.c[i] = T_mul(x.c[i], k)
        /\ Chain1("div", "k") =>
              /\ acc.ty = x.ty
              /\ \A i \in Dims(x) : acc.c[i] = T_div(x.c[i], k)
        /\ ( /\ k # 0
             /\ Chain2("mul", "k", "div", "k")
             /\ \A i \in Dims(x) : InT(x.c[i] * k) ) => Eq(acc, x)

\* C6 witness: a Vector3 with a non-zero component was scaled by a non-zero
\* k without overflow and scaled back, and compares equal to v.
C6_Witness ==
    /\ x.ty = "Vector3" /\ k # 0
    /\ Chain2("mul", "k", "div", "k")
    /\ \A i \in Dims(x) : InT(x.c[i] * k) /\ x.c[i] # 0
    /\ Eq(acc, x)

\* C7: for all vectors v = x, w, v + w and v - w are new vectors computed
\* componentwise, and (v + w) - w == v.
C7_AddSubRoundTrip ==
    IsVector(x) =>
        \A r \in RegNames :
            /\ Chain1("add", r) =>
                  /\ acc.ty = x.ty
                  /\ \A i \in Dims(x) : acc.c[i] = T_add(x.c[i], Reg(r).c[i])
            /\ Chain1("sub", r) =>
                  /\ acc.ty = x.ty
                  /\ \A i \in Dims(x) : acc.c[i] = T_sub(x.c[i], Reg(r).c[i])
            /\ Chain2("add", r, "sub", r) => Eq(acc, x)

\* C7 witness: w was added to a Vector3 and subtracted again in a build
\* where the addition wrapped around, and the result compares equal to v.
C7_Witness ==
    /\ x.ty = "Vector3" /\ ~overflow_checks
    /\ Chain2("add", "a", "sub", "a")
    /\ \E i \in Dims(x) : ~InT(x.c[i] + a.c[i])
    /\ Eq(acc, x)

\* C8: dot(v, w) is the sum of the componentwise products, dot(v, w) ==
\* dot(w, v), and dot(v + w, u) == dot(v, u) + dot(w, u) (where the right
\* hand side evaluates without a panic).
C8_DotProduct ==
    IsVector(x) =>
        \A r, u \in RegNames :
            /\ Chain1("dot", r) =>
                  /\ acc = Scalar(SumOfProducts(x, Reg(r)))
                  /\ acc.c[1] = Dot(Reg(r), x)
            /\ Chain2("add", r, "dot", u) =>
                  LET rhs == T_add(Dot(x, Reg(u)), Dot(Reg(r), Reg(u)))
                  IN  rhs # PANIC => acc.c[1] = rhs

\* C8 witness: dot(v + w, u) was evaluated on Vector3 values with a non-zero
\* result that equals dot(v, u) + dot(w, u).
C8_Witness ==
    /\ x.ty = "Vector3"
    /\ Chain2("add", "a", "dot", "b")
    /\ acc.c[1] # 0
    /\ acc.c[1] = T_add(Dot(x, b), Dot(a, b))

\* C9: -v is a new vector whose every component is the negation of the
\* corresponding component of v, and -(-v) == v.
C9_NegSelfInverse ==
    IsVector(x) =>
        /\ Chain1("neg", "none") =>
              /\ acc.ty = x.ty
              /\ \A i \in Dims(x) : acc.c[i] = T_neg(x.c[i])
        /\ Chain2("neg", "none", "neg", "none") => Eq(acc, x)

\* C9 witness: a Vector3 with a non-zero component was negated twice and
\* compares equal to v.
C9_Witness ==
    /\ x.ty = "Vector3"
    /\ Chain2("neg", "none", "neg", "none")
    /\ \E i \in Dims(x) : x.c[i] # 0
    /\ Eq(acc, x)

\* C10: every in-place step leaves the receiver equal to the non-assigning
\* operators applied in the same order to its initial value x, and changes
\* the receiver only: the operands and every other value keep their values.
C10_InPlaceMatchesOperators ==
    [][ rhist' # rhist =>
          /\ recv' = ApplyOps(rhist', x)
          /\ recv' = NonAssign(rhist'[Len(rhist')], recv)
          /\ <<x, a, b, k, acc, hist, cmp>>' = <<x, a, b, k, acc, hist, cmp>>
      ]_vars

\* C10 witness: two in-place steps (+= and -= with a vector operand) were
\* applied to a Point3 receiver, which now differs from its initial value
\* and equals the non-assigning operators applied to it.
C10_Witness ==
    /\ recv.ty = "Point3"
    /\ Len(rhist) = 2
    /\ recv # x
    /\ recv = ApplyOps(rhist, x)

====
